---- MODULE Spec2Model ----
(***************************************************************************)
(* A model of the attack-vector / fingerprint engine of ddos_dissector     *)
(* (src/src/attack.py): AttackVector construction, the ordering of         *)
(* AttackVectors, the mapping as_dict renders, Fingerprint construction    *)
(* with its tag derivation and its checksum, write_to_file and the two     *)
(* upload operations.                                                      *)
(*                                                                         *)
(* Values that Python types as "str | None", "dict | str | None" are       *)
(* modelled with one shape per field so that they can be compared:         *)
(*   - a service is a string, NoService standing for Python's None;        *)
(*   - a field summary (dict(get_outliers(...)) or 'random' / None) is a   *)
(*     record [kind, keys, others]: kind "dict" with its keys in insertion *)
(*     order and whether the trailing 'others' entry is present, or kind   *)
(*     "random" / "None" / "int" (a fixed source port).                    *)
(* A DataFrame is modelled as the set of its (distinct) rows.              *)
(* A list whose order is that of a Python set (list(set(tags))) is         *)
(* modelled as a bag: the list up to the order of its elements.            *)
(* A number pandas computes is an integer, inf or NaN: a record            *)
(* [kind, val]. The md5 digest is modelled as telling all texts apart.     *)
(***************************************************************************)
EXTENDS Integers, Sequences, FiniteSets, Bags, TLC

\* ------------------------------------------------------------ bounds

\* Most AttackVectors handed to one Fingerprint.
MaxVectors == 2
\* Most rows of one vector's DataFrame.
MaxRecords == 2
\* Resolution of the clock: ticks per second.
TicksPerSecond == 2
\* Largest nr_bytes of one row.
MaxBytes == 3
\* Most calls of each upload operation on one Fingerprint.
MaxCalls == 2

\* ------------------------------------------------- program constants

\* pandas Timedelta: .seconds is the seconds component, 0 <= seconds < 86400.
SecondsPerDay == 86400
\* The status both uploads return for "not uploaded".
NotUploaded == 500
\* The status upload_to_misp returns after add_misp_fingerprint.
Created == 201

\* Python's None as a service, and the fragmentation category.
NoService == "<None>"
FragmentedIP == "Fragmented IP packets"

\* ------------------------------------------------------ field summaries

NoneSummary == [kind |-> "None", keys |-> <<>>, others |-> FALSE]
RandomSummary == [kind |-> "random", keys |-> <<>>, others |-> FALSE]
IntValue(p) == [kind |-> "int", keys |-> <<p>>, others |-> FALSE]

\* dict(get_outliers(...)) or default: an empty list of outliers gives an
\* empty dict, which is falsy.
DictOr(outliers, default) ==
    IF Len(outliers.keys) = 0 /\ ~outliers.others
    THEN default
    ELSE [kind |-> "dict", keys |-> outliers.keys, others |-> outliers.others]

\* Python's len() of a summary that is a dict or the string 'random'
\* (len('random') = 6). len(None) raises: see HasLen.
PyLen(s) ==
    IF s.kind = "random" THEN 6
    ELSE Len(s.keys) + (IF s.others THEN 1 ELSE 0)

HasLen(s) == s.kind \in {"dict", "random"}

\* ------------------------------------------------------- DataFrame

Min(S) == CHOOSE x \in S : \A y \in S : x <= y
Max(S) == CHOOSE x \in S : \A y \in S : x >= y

RECURSIVE SumOver(_, _)
SumOver(rows, col) ==
    IF rows = {} THEN 0
    ELSE LET r == CHOOSE x \in rows : TRUE
         IN IF col = "nr_bytes" THEN r.nr_bytes + SumOver(rows \ {r}, col)
            ELSE r.nr_packets + SumOver(rows \ {r}, col)

\* Timedelta.round(freq='s'): to the nearest whole second, ties to even.
RoundToSeconds(ticks) ==
    LET q == ticks \div TicksPerSecond
        r == ticks % TicksPerSecond
    IN IF 2 * r < TicksPerSecond THEN q
       ELSE IF 2 * r > TicksPerSecond THEN q + 1
       ELSE IF q % 2 = 0 THEN q ELSE q + 1

\* Timedelta.seconds of a span already rounded to whole seconds.
TimedeltaSeconds(seconds) == seconds % SecondsPerDay

\* self.duration = (self.time_end - self.time_start).round(freq='s').seconds
Duration(time_start, time_end) ==
    TimedeltaSeconds(RoundToSeconds(time_end - time_start))

\* --------------------------------------------------- service lookup

\* str.upper() on the strings the model uses.
Upper(s) ==
    CASE s = "tcp" -> "TCP"
      [] s = "udp" -> "UDP"
      [] s = "icmp" -> "ICMP"
      [] s = "domain" -> "DOMAIN"
      [] s = "ssh" -> "SSH"
      [] s = "http" -> "HTTP"
      [] s = "https" -> "HTTPS"
      [] s = "ntp" -> "NTP"
      [] OTHER -> s

\* util.AMPLIFICATION_SERVICES: UDP source port -> service name.
AMPLIFICATION_SERVICES == (53 :> "DNS") @@ (123 :> "NTP")

AmplificationServiceNames ==
    {AMPLIFICATION_SERVICES[p] : p \in DOMAIN AMPLIFICATION_SERVICES}

\* socket.getservbyport(port, proto): the service name, or "OSError" when the
\* services database has no entry.
getservbyport(port, proto) ==
    CASE port = 53 /\ proto \in {"tcp", "udp"} -> "domain"
      [] port = 22 /\ proto = "tcp" -> "ssh"
      [] port = 80 /\ proto \in {"tcp", "udp"} -> "http"
      [] port = 443 /\ proto \in {"tcp", "udp"} -> "https"
      [] port = 123 /\ proto \in {"tcp", "udp"} -> "ntp"
      [] OTHER -> "OSError"

\* lines 131-145 of AttackVector.__init__
Service(source_port, protocol, sp_field, destination_ports) ==
    LET lookup == getservbyport(source_port, protocol)
        amp == IF source_port \in DOMAIN AMPLIFICATION_SERVICES
               THEN AMPLIFICATION_SERVICES[source_port] ELSE NoService
        onOSError ==
            IF sp_field = IntValue(0)
               /\ PyLen(destination_ports) = 1
               /\ ~destination_ports.others
               /\ destination_ports.keys[1] = 0
            THEN FragmentedIP ELSE NoService
    IN IF Upper(protocol) = "UDP" /\ source_port # -1
       THEN IF amp # NoService THEN amp
            ELSE IF lookup = "OSError" THEN onOSError ELSE Upper(lookup)
       ELSE IF Upper(protocol) = "TCP" /\ source_port # -1
       THEN IF lookup = "OSError" THEN onOSError ELSE Upper(lookup)
       ELSE NoService

\* ---------------------------------------------------- AttackVector

\* A number that pandas holds as a float: an integer value, inf or NaN.
Finite(n) == [kind |-> "int", val |-> n]
Infinity == [kind |-> "inf", val |-> 0]
NaN == [kind |-> "nan", val |-> 0]

\* self.data.groupby('unix_timestamp').sum(): the rows of each time bucket.
Bucket(data, t) == {r \in data : r.unix_timestamp = t}
Buckets(data) == {r.unix_timestamp : r \in data}

\* nr_bytes // nr_packets of one bucket: pandas gives inf for x // 0 with
\* x > 0 and NaN for 0 // 0, it does not raise.
BucketBpp(rows) ==
    LET b == SumOver(rows, "nr_bytes")
        p == SumOver(rows, "nr_packets")
    IN IF p > 0 THEN Finite(b \div p)
       ELSE IF b > 0 THEN Infinity ELSE NaN

\* Series.max(): NaN is skipped, unless every value is NaN.
SeriesMax(values) ==
    IF Infinity \in values THEN Infinity
    ELSE IF \A x \in values : x.kind = "nan" THEN NaN
    ELSE Finite(Max({x.val : x \in {y \in values : y.kind = "int"}}))

\* line 128: self.grouped_by_timestamp.nr_bytes.max() << 3
PeakBps(data) ==
    Max({SumOver(Bucket(data, t), "nr_bytes") : t \in Buckets(data)}) * 8

\* line 129
PeakPps(data) ==
    Max({SumOver(Bucket(data, t), "nr_packets") : t \in Buckets(data)})

\* line 130
PeakBpp(data) == SeriesMax({BucketBpp(Bucket(data, t)) : t \in Buckets(data)})

\* line 156: the ethernet-type summary is a dict that holds IPv4 or IPv6.
IsIP(eth_type) ==
    eth_type.kind = "dict"
    /\ \E i \in DOMAIN eth_type.keys : eth_type.keys[i] \in {"IPv4", "IPv6"}

\* lines 152-179: the attributes that only a packet-level vector gets.
PacketAttributes(filetype, eth_type, service, protocol) ==
    IF filetype # "PCAP" THEN {}
    ELSE {"eth_type", "frame_len"}
         \cup (IF IsIP(eth_type) THEN {"frag_offset", "ttl"} ELSE {})
         \cup (IF service = "DNS" THEN {"dns_query_name", "dns_query_type"}
               ELSE IF service \in {"HTTP", "HTTPS"}
               THEN {"http_uri", "http_method", "http_user_agent"}
               ELSE IF service = "NTP" THEN {"ntp_requestcode"}
               ELSE IF protocol = "ICMP" THEN {"icmp_type"}
               ELSE {})

\* AttackVector.__init__(data, source_port, protocol, filetype); the results
\* of the get_outliers calls are part of the input `in`. `id` is the object's
\* identity.
AttackVector(in, id) ==
    LET sp == IF in.source_port = -1
              THEN DictOr(in.sp_outliers, RandomSummary)
              ELSE IntValue(in.source_port)
        dp == DictOr(in.dst_outliers, RandomSummary)
        packets == SumOver(in.data, "nr_packets")
        bytes == SumOver(in.data, "nr_bytes")
        time_start == Min({r.time_start : r \in in.data})
        time_end == Max({r.time_end : r \in in.data})
        duration == Duration(time_start, time_end)
        service == Service(in.source_port, in.protocol, sp, dp)
        eth_type == IF in.filetype = "PCAP"
                    THEN DictOr(in.eth_outliers, RandomSummary)
                    ELSE NoneSummary
    IN [id |-> id,
        data |-> in.data,
        source_port |-> sp,
        protocol |-> Upper(in.protocol),
        destination_ports |-> dp,
        packets |-> packets,
        bytes |-> bytes,
        time_start |-> time_start,
        time_end |-> time_end,
        duration |-> duration,
        source_ips |-> {r.source_address : r \in in.data},
        fraction_of_attack |-> 0,
        avg_bps |-> IF duration > 0 THEN (bytes * 8) \div duration ELSE 0,
        avg_pps |-> IF duration > 0 THEN packets \div duration ELSE 0,
        avg_Bpp |-> IF packets > 0 THEN bytes \div packets ELSE 0,
        peak_bps |-> PeakBps(in.data),
        peak_pps |-> PeakPps(in.data),
        peak_Bpp |-> PeakBpp(in.data),
        service |-> service,
        tcp_flags |-> IF Upper(in.protocol) = "TCP"
                      THEN DictOr(in.flags_outliers, NoneSummary)
                      ELSE NoneSummary,
        filetype |-> in.filetype,
        eth_type |-> eth_type,
        attributes |->
            PacketAttributes(in.filetype, eth_type, service, Upper(in.protocol))]

\* int(x) of a pandas float: raises on inf (OverflowError) and on NaN
\* (ValueError).
IntRaises(x) == x.kind # "int"

\* lines 196-217 of AttackVector.as_dict: the keys every vector has.
BaseKeys(v) ==
    {"service", "protocol", "fraction_of_attack", "source_port",
     "destination_ports", "tcp_flags",
     IF v.filetype = "FLOW" THEN "nr_flows" ELSE "nr_packets",
     "nr_packets", "nr_megabytes", "avg_bps", "avg_pps", "avg_Bpp",
     "peak_bps", "peak_pps", "peak_Bpp", "time_start", "duration_seconds",
     "source_ips", "source_statistics"}

\* line 221: self.eth_type.keys() raises AttributeError when eth_type is the
\* string 'random'.
EthTypeKeysRaises(v) == v.eth_type.kind # "dict"

\* lines 218-234 of AttackVector.as_dict: the keys of a packet-level vector.
PacketKeys(v) ==
    {"ethernet_type", "frame_len"}
    \cup (IF IsIP(v.eth_type) THEN {"fragmentation_offset", "ttl"} ELSE {})
    \cup (IF v.service = "DNS" THEN {"dns_query_name", "dns_query_type"}
          ELSE IF v.service \in {"HTTP", "HTTPS"}
          THEN {"http_uri", "http_method", "http_user_agent"}
          ELSE IF v.service = "NTP" THEN {"ntp_requestcode"}
          ELSE IF v.protocol = "ICMP" THEN {"icmp_type"}
          ELSE {})

\* What as_dict reads of a packet-level vector: an attribute that was not
\* set at construction raises AttributeError.
PacketReads(v) ==
    {"eth_type", "frame_len"}
    \cup (IF IsIP(v.eth_type) THEN {"frag_offset", "ttl"} ELSE {})
    \cup (IF v.service = "DNS" THEN {"dns_query_name", "dns_query_type"}
          ELSE IF v.service \in {"HTTP", "HTTPS"}
          THEN {"http_uri", "http_method", "http_user_agent"}
          ELSE IF v.service = "NTP" THEN {"ntp_requestcode"}
          ELSE IF v.protocol = "ICMP" THEN {"icmp_type"}
          ELSE {})

\* No mapping: as_dict raised.
NoValues ==
    [avg_bps |-> 0, avg_pps |-> 0, avg_Bpp |-> 0, peak_bps |-> 0,
     peak_pps |-> 0, peak_Bpp |-> 0]

NoVectorDict ==
    [raised |-> TRUE, keys |-> {}, source_ips |-> "", values |-> NoValues]

\* AttackVector.as_dict(summarized): whether it raises, and else the keys of
\* the mapping and the six throughput values in it.
VectorAsDict(v, summarized) ==
    LET raised ==
            \/ IntRaises(v.peak_Bpp)
            \/ /\ v.filetype = "PCAP"
               /\ \/ EthTypeKeysRaises(v)
                  \/ ~(PacketReads(v) \subseteq v.attributes)
    IN [raised |-> raised,
        keys |-> IF raised THEN {}
                 ELSE BaseKeys(v)
                      \cup (IF v.filetype = "PCAP" THEN PacketKeys(v) ELSE {}),
        source_ips |-> IF raised THEN "" ELSE
                       IF summarized THEN "omitted" ELSE "list",
        values |-> IF raised THEN NoValues
                   ELSE [avg_bps |-> v.avg_bps, avg_pps |-> v.avg_pps,
                         avg_Bpp |-> v.avg_Bpp, peak_bps |-> v.peak_bps,
                         peak_pps |-> v.peak_pps, peak_Bpp |-> v.peak_Bpp.val]]

\* AttackVector.__lt__ (both operands are AttackVectors).
Lt(a, b) == a.bytes < b.bytes /\ a.service # FragmentedIP

\* object.__eq__ / __ne__: identity, AttackVector defines neither.
Eq(a, b) == a.id = b.id
Ne(a, b) == ~Eq(a, b)

\* functools.total_ordering, from __lt__: __gt__, __le__, __ge__.
Gt(a, b) == ~Lt(a, b) /\ Ne(a, b)
Le(a, b) == Lt(a, b) \/ Eq(a, b)
Ge(a, b) == ~Lt(a, b)

\* -------------------------------------------------------- Fingerprint

\* util.TCP_FLAG_NAMES in iteration order: <<key, canonical name>>.
TCP_FLAG_NAMES ==
    << <<"F", "FIN">>, <<"S", "SYN">>, <<"R", "RESET">>,
       <<"P", "PUSH">>, <<"A", "ACK">>, <<"U", "URGENT">> >>

\* lines 284-287: the names of the flags in `flags`, each followed by a space.
RECURSIVE FlagNamesFrom(_, _)
FlagNamesFrom(i, flags) ==
    IF i > Len(TCP_FLAG_NAMES) THEN ""
    ELSE (IF TCP_FLAG_NAMES[i][1] \in flags
          THEN TCP_FLAG_NAMES[i][2] \o " " ELSE "")
         \o FlagNamesFrom(i + 1, flags)

\* A variant of SingleFlagTag without the case of no flag set.
SingleFlagTagNoEmptyCase(flags) ==
    "TCP " \o FlagNamesFrom(1, flags) \o "flag " \o "attack"

\* lines 283-289: the tag of a TCP vector with a single flag combination.
SingleFlagTag(flags) ==
    LET names == FlagNamesFrom(1, flags)
        flag_names == names \o (IF names = "" THEN "no flag " ELSE "flag ")
    IN "TCP " \o flag_names \o "attack"

\* isinstance(self.target, IPNetwork): self.target is a list (line 241).
TargetIsIPNetwork == FALSE

\* lines 275-295: the loop over the vectors from the i-th on, `tags` being the
\* local list so far. len(None) raises TypeError (line 282), which ends the
\* loop with the list as it is then.
RECURSIVE TagsLoop(_, _, _)
TagsLoop(vs, i, tags) ==
    IF i > Len(vs) THEN [raised |-> FALSE, tags |-> tags]
    ELSE
      LET vector == vs[i]
          t1 == Append(tags, vector.protocol)
          t2 == IF vector.service = NoService
                THEN Append(t1, vector.protocol \o " flood attack") ELSE t1
          t3 == IF Cardinality(vector.source_ips) > 1
                   /\ vector.service # NoService
                   /\ vector.service # FragmentedIP
                THEN Append(t2, vector.service \o " amplification attack")
                ELSE t2
      IN IF vector.protocol = "TCP"
         THEN IF ~HasLen(vector.tcp_flags)
              THEN [raised |-> TRUE, tags |-> t3]
              ELSE IF PyLen(vector.tcp_flags) = 1
              THEN TagsLoop(vs, i + 1,
                       Append(t3, SingleFlagTag(vector.tcp_flags.keys[1])))
              ELSE TagsLoop(vs, i + 1, Append(t3, "TCP flag attack"))
         ELSE IF vector.service = FragmentedIP
         THEN TagsLoop(vs, i + 1, Append(t3, "Fragmentation attack"))
         ELSE IF vector.service \in AmplificationServiceNames
         THEN TagsLoop(vs, i + 1, Append(t3, "Amplification attack"))
         ELSE TagsLoop(vs, i + 1, t3)

Range(s) == {s[i] : i \in DOMAIN s}

\* len([v for v in self.attack_vectors if v.service != 'Fragmented IP packets'])
NonFragmentCount(vs) ==
    Cardinality({i \in DOMAIN vs : vs[i].service # FragmentedIP})

\* A variant of MultiVectorTags that counts the fragmentation vectors too.
MultiVectorTagsAllVectors(vs) ==
    IF Len(vs) > 1 THEN <<"Multi-vector attack">> ELSE <<>>

\* lines 271-272
MultiVectorTags(vs) ==
    IF NonFragmentCount(vs) > 1 THEN <<"Multi-vector attack">> ELSE <<>>

\* lines 273-274
CarpetBombingTags ==
    IF TargetIsIPNetwork THEN <<"Carpet bombing attack">> ELSE <<>>

RECURSIVE BagOfSeq(_)
BagOfSeq(s) ==
    IF s = <<>> THEN EmptyBag
    ELSE SetToBag({Head(s)}) (+) BagOfSeq(Tail(s))

\* A variant of ListOfSet that returns the list as it was built.
ListOfSetKeepingAll(tags) == BagOfSeq(tags)

\* list(set(tags)): each distinct tag once, in the order of the set.
ListOfSet(tags) == SetToBag(Range(tags))

\* Fingerprint.determine_tags: [raised, local (the local list `tags` when the
\* function ends), result (the list returned, when it returns)].
determine_tags(vs) ==
    LET r == TagsLoop(vs, 1, MultiVectorTags(vs) \o CarpetBombingTags)
    IN [raised |-> r.raised,
        local |-> r.tags,
        result |-> IF r.raised THEN EmptyBag ELSE ListOfSet(r.tags)]

\* ------------------------------------------------------------ state

\* ------------------------------------------------------ Fingerprint

\* An IPNetwork of the target list, and the bare address t.network.
Network(address, prefixlen, version) ==
    [address |-> address, prefixlen |-> prefixlen, version |-> version,
     bare |-> FALSE]
NetworkAddress(t) == [t EXCEPT !.bare = TRUE]

\* lines 240-245: a /32 (IPv4) or /128 (IPv6) network becomes its address.
NormalizeTarget(target) ==
    [i \in DOMAIN target |->
        IF \/ target[i].version = 4 /\ target[i].prefixlen = 32
           \/ target[i].version = 6 /\ target[i].prefixlen = 128
        THEN NetworkAddress(target[i])
        ELSE target[i]]

\* str(t) of a target entry.
TargetStr(t) ==
    IF t.bare THEN t.address ELSE t.address \o "/" \o ToString(t.prefixlen)

\* ', '.join(...) of the strings of a list.
RECURSIVE Join(_)
Join(strs) ==
    IF strs = <<>> THEN ""
    ELSE IF Len(strs) = 1 THEN strs[1]
    ELSE strs[1] \o ", " \o Join(Tail(strs))

\* str(self.service): None prints as None.
ServiceStr(service) == IF service = NoService THEN "None" ELSE service

\* A variant of Repr that prints the byte total of the vector as well.
ReprWithBytes(v) ==
    "[AttackVector (" \o ToString(v.fraction_of_attack * 100)
    \o "% of traffic) " \o v.protocol \o ", service: "
    \o ServiceStr(v.service) \o ", bytes: " \o ToString(v.bytes) \o "]"

\* AttackVector.__repr__ = __str__, lines 181-185.
Repr(v) ==
    "[AttackVector (" \o ToString(v.fraction_of_attack * 100)
    \o "% of traffic) " \o v.protocol \o ", service: "
    \o ServiceStr(v.service) \o "]"

\* str(attack_vectors): the list prints the repr of each vector, in order.
ListStr(vs) == "[" \o Join([i \in DOMAIN vs |-> Repr(vs[i])]) \o "]"

\* str(summary): the summary is a dict of <<key, value>> items in insertion
\* order.
DictStr(summary) ==
    "{" \o Join([i \in DOMAIN summary |->
                    "'" \o summary[i][1] \o "': " \o ToString(summary[i][2])])
    \o "}"

\* hashlib.md5(text).hexdigest(): a digest that tells all texts apart.
Md5(text) == "md5:" \o text

\* line 251
Checksum(vs, summary) == Md5(ListStr(vs) \o DictStr(summary))

\* No Fingerprint yet.
NoFingerprint ==
    [status |-> "none", tags |-> EmptyBag, local |-> <<>>, target |-> <<>>,
     summary |-> <<>>, show_target |-> FALSE, checksum |-> ""]

\* Fingerprint.__init__, lines 239-251: an exception of determine_tags
\* leaves no Fingerprint.
Fingerprint(target, summary, vs, show_target) ==
    LET t == determine_tags(vs)
    IN IF t.raised
       THEN [NoFingerprint EXCEPT !.status = "raised",
                                  !.tags = t.result,
                                  !.local = t.local]
       ELSE [status |-> "constructed",
             tags |-> t.result,
             local |-> t.local,
             target |-> NormalizeTarget(target),
             summary |-> summary,
             show_target |-> show_target,
             checksum |-> Checksum(vs, summary)]

\* No mapping: as_dict raised, or was not called.
NoDict ==
    [raised |-> TRUE, attack_vectors |-> <<>>, target |-> "",
     tags |-> EmptyBag, key |-> "", summary |-> <<>>, shareable |-> <<>>]

\* Fingerprint.as_dict, lines 256-263: a new dict; it raises when the
\* as_dict of a vector raises.
FingerprintAsDict(fp, vs, anonymous, summarized) ==
    LET avs == [i \in DOMAIN vs |-> VectorAsDict(vs[i], summarized)]
    IN IF \E i \in DOMAIN avs : avs[i].raised THEN NoDict
       ELSE [raised |-> FALSE,
             attack_vectors |-> avs,
             target |-> IF anonymous THEN "Anonymized"
                        ELSE Join([i \in DOMAIN fp.target |->
                                      TargetStr(fp.target[i])]),
             tags |-> fp.tags,
             key |-> fp.checksum,
             summary |-> fp.summary,
             shareable |-> <<>>]

\* A variant of StoreShareable that stores the flag in the summary of the
\* fingerprint too.
StoreShareableInSummary(fp, fp_dict, shareable) ==
    [fingerprint |->
         [fp EXCEPT !.summary =
              Append(@, <<"shareable", IF shareable THEN 1 ELSE 0>>)],
     fp_dict |-> [fp_dict EXCEPT !.shareable = <<shareable>>]]

\* line 325: fp_dict['shareable'] = shareable; the fingerprint and the
\* mapping after it.
StoreShareable(fp, fp_dict, shareable) ==
    [fingerprint |-> fp,
     fp_dict |-> [fp_dict EXCEPT !.shareable = <<shareable>>]]

\* ------------------------------------------------------------ state

VARIABLES
    attack_vectors,  \* the AttackVectors constructed so far, in list order
    fingerprint,     \* the Fingerprint: [status, tags, local, target,
                     \*   summary, show_target, checksum]
    ddosdb,          \* upload_to_ddosdb: [pc, calls, posts, outcome, ret]
    misp,            \* upload_to_misp: [pc, calls, log, outcome, ret, seen]
    rendered         \* the mapping as_dict built last: [op, vector, fp_dict]

vars == <<attack_vectors, fingerprint, ddosdb, misp, rendered>>

\* Nothing rendered yet.
NothingRendered ==
    [op |-> "none", index |-> 0, vector |-> NoVectorDict, fp_dict |-> NoDict]

\* No response / no exception yet.
NoOutcome == [exc |-> "none", status_code |-> 0]

Init ==
    /\ attack_vectors = <<>>
    /\ fingerprint = NoFingerprint
    /\ ddosdb = [pc |-> "idle", calls |-> 0, posts |-> 0,
                 outcome |-> NoOutcome, ret |-> 0]
    /\ misp = [pc |-> "idle", calls |-> 0, log |-> <<>>,
               outcome |-> "none", ret |-> 0, seen |-> {}]
    /\ rendered = NothingRendered

\* ---------------------------------------------------------- actions

\* The caller constructs one more AttackVector for the attack.
NewAttackVector(in) ==
    /\ fingerprint.status = "none"
    /\ Len(attack_vectors) < MaxVectors
    /\ attack_vectors' =
           Append(attack_vectors, AttackVector(in, Len(attack_vectors) + 1))
    /\ UNCHANGED <<fingerprint, ddosdb, misp, rendered>>

\* The caller calls as_dict of the vector at position i.
AttackVectorAsDict(i, summarized) ==
    /\ i \in DOMAIN attack_vectors
    /\ fingerprint.status = "none"
    /\ rendered' = [op |-> "AttackVector.as_dict", index |-> i,
                    vector |-> VectorAsDict(attack_vectors[i], summarized),
                    fp_dict |-> NoDict]
    /\ UNCHANGED <<attack_vectors, fingerprint, ddosdb, misp>>

\* The caller constructs the Fingerprint of the vectors.
NewFingerprint(target, summary, show_target) ==
    /\ fingerprint.status = "none"
    /\ fingerprint' = Fingerprint(target, summary, attack_vectors, show_target)
    /\ UNCHANGED <<attack_vectors, ddosdb, misp, rendered>>

\* The program is single-threaded: one call of the fingerprint at a time.
NoCallInProgress ==
    /\ ddosdb.pc \in {"idle", "returned", "raised"}
    /\ misp.pc \in {"idle", "returned", "raised"}

\* The caller calls Fingerprint.as_dict.
FingerprintAsDictCall(anonymous, summarized) ==
    /\ fingerprint.status = "constructed"
    /\ NoCallInProgress
    /\ rendered' = [op |-> "Fingerprint.as_dict", index |-> 0,
                    vector |-> NoVectorDict,
                    fp_dict |-> FingerprintAsDict(fingerprint, attack_vectors,
                                                  anonymous, summarized)]
    /\ UNCHANGED <<attack_vectors, fingerprint, ddosdb, misp>>

\* write_to_file, lines 298-305: the mapping goes to the file as JSON.
WriteToFile ==
    /\ fingerprint.status = "constructed"
    /\ NoCallInProgress
    /\ rendered' = [op |-> "write_to_file", index |-> 0,
                    vector |-> NoVectorDict,
                    fp_dict |-> FingerprintAsDict(fingerprint, attack_vectors,
                                                  ~fingerprint.show_target,
                                                  FALSE)]
    /\ UNCHANGED <<attack_vectors, fingerprint, ddosdb, misp>>

\* upload_to_ddosdb, lines 322-329: the payload and the headers; an
\* exception of as_dict leaves upload_to_ddosdb before the request.
DdosdbCall(shareable) ==
    /\ fingerprint.status = "constructed"
    /\ NoCallInProgress
    /\ ddosdb.calls < MaxCalls
    /\ LET d == FingerprintAsDict(fingerprint, attack_vectors,
                                  ~fingerprint.show_target, FALSE)
           stored == StoreShareable(fingerprint, d, shareable)
       IN IF d.raised
          THEN /\ ddosdb' = [ddosdb EXCEPT !.pc = "raised", !.calls = @ + 1,
                                           !.outcome = NoOutcome, !.ret = 0]
               /\ rendered' = [op |-> "upload_to_ddosdb", index |-> 0,
                               vector |-> NoVectorDict, fp_dict |-> NoDict]
               /\ UNCHANGED fingerprint
          ELSE /\ ddosdb' = [ddosdb EXCEPT !.pc = "post", !.calls = @ + 1,
                                           !.outcome = NoOutcome, !.ret = 0]
               /\ rendered' = [op |-> "upload_to_ddosdb", index |-> 0,
                               vector |-> NoVectorDict,
                               fp_dict |-> stored.fp_dict]
               /\ fingerprint' = stored.fingerprint
    /\ UNCHANGED <<attack_vectors, misp>>

\* What requests.post can do: raise SSLError, raise another
\* RequestException, or return a response with a status code.
PostOutcomes ==
    {[exc |-> e, status_code |-> 0] : e \in {"SSLError", "RequestException"}}
    \cup {[exc |-> "none", status_code |-> c] : c \in {201, 403, 413, 500, 404}}

\* requests.post is called once per call, outside any loop (line 335).
DdosdbPosts(outcome) == 1

\* lines 339-358: the value returned.
DdosdbStatus(outcome) ==
    IF outcome.exc = "SSLError" THEN NotUploaded
    ELSE IF outcome.exc = "RequestException" THEN NotUploaded
    ELSE outcome.status_code

\* upload_to_ddosdb, lines 331-358: the request and the return.
DdosdbPost(outcome) ==
    /\ ddosdb.pc = "post"
    /\ ddosdb' = [ddosdb EXCEPT !.pc = "returned",
                                !.posts = @ + DdosdbPosts(outcome),
                                !.outcome = outcome,
                                !.ret = DdosdbStatus(outcome)]
    /\ UNCHANGED <<attack_vectors, fingerprint, misp, rendered>>

\* upload_to_misp, lines 366-376: the payload and the filter; an exception
\* of as_dict leaves upload_to_misp before the query.
MispCall ==
    /\ fingerprint.status = "constructed"
    /\ NoCallInProgress
    /\ misp.calls < MaxCalls
    /\ LET d == FingerprintAsDict(fingerprint, attack_vectors,
                                  ~fingerprint.show_target, FALSE)
       IN /\ misp' = [misp EXCEPT
                 !.pc = IF d.raised THEN "raised" ELSE "search",
                 !.calls = @ + 1, !.log = <<>>, !.outcome = "none", !.ret = 0]
          /\ rendered' = [op |-> "upload_to_misp", index |-> 0,
                          vector |-> NoVectorDict, fp_dict |-> d]
    /\ UNCHANGED <<attack_vectors, fingerprint, ddosdb>>

\* What search_misp_events can do: raise SSLError, raise another exception
\* (not caught: it leaves upload_to_misp), return events, return none.
SearchOutcomes == {"SSLError", "exception", "events", "no_events"}

\* A variant of MispSkipStatus with a status of its own for a duplicate.
MispSkipStatusConflict(outcome) ==
    IF outcome = "SSLError" THEN NotUploaded ELSE 409

\* line 383 and line 388: the value returned without uploading.
MispSkipStatus(outcome) ==
    IF outcome = "SSLError" THEN NotUploaded ELSE NotUploaded

\* A variant of MispAfterSearch that submits although events were found.
MispAfterSearchNoDuplicateCheck(outcome) ==
    CASE outcome = "SSLError" -> "returned"
      [] outcome = "exception" -> "raised"
      [] OTHER -> "add"

\* Where upload_to_misp goes after the query (lines 377-388).
MispAfterSearch(outcome) ==
    CASE outcome = "SSLError" -> "returned"
      [] outcome = "events" -> "returned"
      [] outcome = "exception" -> "raised"
      [] OTHER -> "add"

\* upload_to_misp, lines 377-388: the duplicate query.
MispSearch(outcome) ==
    /\ misp.pc = "search"
    /\ LET next == MispAfterSearch(outcome)
           ret == IF next = "returned" THEN MispSkipStatus(outcome) ELSE 0
       IN misp' = [misp EXCEPT
              !.pc = next,
              !.log = Append(@, "search_misp_events"),
              !.outcome = outcome,
              !.ret = ret,
              !.seen = IF next = "returned"
                       THEN @ \cup {[outcome |-> outcome, ret |-> ret]}
                       ELSE @]
    /\ UNCHANGED <<attack_vectors, fingerprint, ddosdb, rendered>>

\* upload_to_misp, lines 390-392: the submission; its result is not looked
\* at, an exception of it leaves upload_to_misp.
MispAdd(raises) ==
    /\ misp.pc = "add"
    /\ misp' = [misp EXCEPT
           !.pc = IF raises THEN "raised" ELSE "returned",
           !.log = Append(@, "add_misp_fingerprint"),
           !.ret = IF raises THEN 0 ELSE Created,
           !.seen = IF raises THEN @
                    ELSE @ \cup {[outcome |-> "added", ret |-> Created]}]
    /\ UNCHANGED <<attack_vectors, fingerprint, ddosdb, rendered>>

\* ----------------------------------------------------------- inputs

\* A row whose time bucket is the second its start falls in.
Row(ts, te, b, p, src) ==
    [time_start |-> ts, time_end |-> te, nr_bytes |-> b, nr_packets |-> p,
     source_address |-> src, unix_timestamp |-> ts \div TicksPerSecond]

Outliers(keys, others) == [keys |-> keys, others |-> others]
NoOutliers == Outliers(<<>>, FALSE)

\* DataFrames of 1..MaxRecords rows drawn from `rows`.
DataFrames(rows) ==
    {d \in SUBSET rows : Cardinality(d) >= 1 /\ Cardinality(d) <= MaxRecords}

PacketInputs(data, ports, protocols, dst, flags, filetypes, eth) ==
    [data : data, source_port : ports, protocol : protocols,
     sp_outliers : {NoOutliers}, dst_outliers : dst, flags_outliers : flags,
     filetype : filetypes, eth_outliers : eth]

\* Flow-level vectors.
ConstructorInputs(data, ports, protocols, dst, flags) ==
    PacketInputs(data, ports, protocols, dst, flags, {"FLOW"}, {NoOutliers})

\* The lifecycle of one fingerprint: a DNS amplification vector or a TCP SYN
\* vector, each from one source.
InputsUpload ==
    ConstructorInputs({{Row(0, TicksPerSecond, 1, 1, "a")}}, {53},
                      {"udp", "tcp"}, {NoOutliers}, {Outliers(<<{"S"}>>, FALSE)})
    \cup ConstructorInputs({{Row(0, TicksPerSecond, 1, 0, "a")}}, {53},
                           {"udp"}, {NoOutliers}, {NoOutliers})

\* One target, a single address, and one summary.
Targets == {<<Network("192.0.2.1", 32, 4)>>}
Summaries == {<<<<"total_packets", 1>>, <<"duration_seconds", 1>>>>}

Next ==
    \/ \E in \in InputsUpload : NewAttackVector(in)
    \/ \E target \in Targets, summary \in Summaries, show_target \in BOOLEAN :
           NewFingerprint(target, summary, show_target)
    \/ \E anonymous, summarized \in BOOLEAN :
           FingerprintAsDictCall(anonymous, summarized)
    \/ WriteToFile
    \/ \E shareable \in BOOLEAN : DdosdbCall(shareable)
    \/ \E outcome \in PostOutcomes : DdosdbPost(outcome)
    \/ MispCall
    \/ \E outcome \in SearchOutcomes : MispSearch(outcome)
    \/ \E raises \in BOOLEAN : MispAdd(raises)

Spec == Init /\ [][Next]_vars

\* ------------------------------------------------------- the uploads

\* C1: every call of upload_to_ddosdb issues exactly one POST, also when the
\* request fails; a TLS or other transport error gives 500, and a response's
\* status code (201, 403, 413 or any other) is returned unchanged.
C1_OnePostStatusUnchanged ==
    /\ ddosdb.pc = "post" => ddosdb.posts = ddosdb.calls - 1
    /\ ddosdb.pc # "post" => ddosdb.posts = ddosdb.calls
    /\ ddosdb.pc = "returned" =>
           IF ddosdb.outcome.exc \in {"SSLError", "RequestException"}
           THEN ddosdb.ret = 500
           ELSE ddosdb.ret = ddosdb.outcome.status_code

AddCalls(log) == {i \in DOMAIN log : log[i] = "add_misp_fingerprint"}

\* C2: in every call of upload_to_misp the duplicate query comes first; the
\* fingerprint is submitted, once, and 201 returned only after the query
\* completed with no event; after a query that found an event or failed on
\* TLS, add_misp_fingerprint is not called.
C2_QueryBeforeSubmission ==
    /\ \A i \in AddCalls(misp.log) :
           /\ i = 2
           /\ misp.log[1] = "search_misp_events"
           /\ misp.outcome = "no_events"
    /\ Cardinality(AddCalls(misp.log)) <= 1
    /\ misp.outcome \in {"events", "SSLError"} =>
           AddCalls(misp.log) = {} /\ misp.ret # 201
    /\ misp.pc = "returned" /\ misp.ret = 201 =>
           misp.log = <<"search_misp_events", "add_misp_fingerprint">>
    /\ misp.pc = "add" => misp.log = <<"search_misp_events">>

\* An upload went through after an empty query.
C2_Witness ==
    /\ misp.pc = "returned"
    /\ misp.ret = 201
    /\ misp.outcome = "no_events"
    /\ Cardinality(AddCalls(misp.log)) = 1

\* C3 as stated: the status returned for a fingerprint already present
\* differs from the status returned when the query fails on TLS.
C3_DuplicateDistinctFromFailure ==
    \A p, q \in misp.seen :
        p.outcome = "events" /\ q.outcome = "SSLError" => p.ret # q.ret

\* C3, amended: upload_to_misp returns the same status for a fingerprint
\* already present and for a TLS failure of the query (500, "not uploaded");
\* that status differs only from the status of an upload (201).
C3_DuplicateSameAsFailure ==
    \A p, q \in misp.seen :
        /\ p.outcome = "events" /\ q.outcome = "SSLError" => p.ret = q.ret
        /\ p.outcome \in {"events", "SSLError"} /\ q.outcome = "added" =>
               p.ret # q.ret

\* One fingerprint has met a duplicate, a TLS failure and nothing else.
C3_Witness ==
    {p.outcome : p \in misp.seen} = {"events", "SSLError"}

\* ---------------------------------------------------- tag derivation

OneSource == {Row(0, TicksPerSecond, 1, 1, "a")}
TwoSources == OneSource \cup {Row(0, TicksPerSecond, 1, 1, "b")}

\* What the summary of tcp_flags can be: no dominant combination; one
\* combination (SYN; SYN+ACK; no flag set); one combination and the rest.
FlagOutliers ==
    {NoOutliers,
     Outliers(<<{"S"}>>, FALSE),
     Outliers(<<{"S", "A"}>>, FALSE),
     Outliers(<<{}>>, FALSE),
     Outliers(<<{"S"}>>, TRUE)}

\* Vectors with source port 0 (fragments when the only destination port is 0
\* too), vectors of a known service from one or two sources, and vectors
\* without a fixed source port.
InputsTags ==
    ConstructorInputs({OneSource}, {0}, {"tcp", "udp"},
                      {NoOutliers, Outliers(<<0>>, FALSE)}, FlagOutliers)
    \cup ConstructorInputs({OneSource, TwoSources}, {53}, {"tcp", "udp"},
                           {NoOutliers}, FlagOutliers)
    \cup ConstructorInputs({OneSource}, {-1}, {"icmp", "udp"},
                           {NoOutliers}, {NoOutliers})

NextTags ==
    \/ \E in \in InputsTags : NewAttackVector(in)
    \/ \E target \in Targets, summary \in Summaries :
           NewFingerprint(target, summary, FALSE)

SpecTags == Init /\ [][NextTags]_vars

Tags == BagToSet(fingerprint.tags)

Fragments == {i \in DOMAIN attack_vectors :
                 attack_vectors[i].service = "Fragmented IP packets"}

\* C4: determine_tags includes "Multi-vector attack" exactly when more than
\* one vector is not of the fragmentation category: in the list it builds
\* (also when it ends early) and in the list it returns.
C4_MultiVectorIff ==
    LET multi == Cardinality(DOMAIN attack_vectors \ Fragments) > 1
    IN /\ fingerprint.status # "none" =>
              ("Multi-vector attack" \in Range(fingerprint.local) <=> multi)
       /\ fingerprint.status = "constructed" =>
              ("Multi-vector attack" \in Tags <=> multi)

\* One vector that is not a fragment and one that is: no "Multi-vector attack".
C4_Witness ==
    /\ fingerprint.status = "constructed"
    /\ Len(attack_vectors) = 2
    /\ Cardinality(Fragments) = 1
    /\ "Multi-vector attack" \notin Tags

NoDuplicateTag == \A t \in Tags : CopiesIn(t, fingerprint.tags) = 1

SingleUnknownService ==
    /\ fingerprint.status = "constructed"
    /\ Len(attack_vectors) = 1
    /\ attack_vectors[1].service = NoService

FloodTags(protocol) == {protocol, protocol \o " flood attack"}

\* C5 as stated: no tag twice, and a single vector of unknown service, of
\* whatever protocol, has exactly the tags <PROTOCOL> and
\* "<PROTOCOL> flood attack".
C5_SingleUnknownAnyProtocol ==
    /\ fingerprint.status = "constructed" => NoDuplicateTag
    /\ SingleUnknownService => Tags = FloodTags(attack_vectors[1].protocol)

\* C5, amended: no tag twice; a single vector of unknown service whose
\* protocol is not TCP has exactly the tags <PROTOCOL> and
\* "<PROTOCOL> flood attack"; a TCP one has these two and one more tag (its
\* TCP flag tag); "Multi-vector attack" is in neither.
C5_SingleUnknownNotTcp ==
    /\ fingerprint.status = "constructed" => NoDuplicateTag
    /\ SingleUnknownService =>
           LET protocol == attack_vectors[1].protocol
           IN /\ protocol # "TCP" => Tags = FloodTags(protocol)
              /\ protocol = "TCP" =>
                     /\ FloodTags(protocol) \subseteq Tags
                     /\ Cardinality(Tags) = 3
              /\ "Multi-vector attack" \notin Tags

\* A single ICMP vector of unknown service.
C5_Witness ==
    /\ SingleUnknownService
    /\ attack_vectors[1].protocol = "ICMP"
    /\ Tags = {"ICMP", "ICMP flood attack"}

\* C6 as stated: a vector of the fragmentation category, of whatever
\* protocol, puts "Fragmentation attack" among the tags.
C6_FragmentationTagged ==
    fingerprint.status = "constructed" /\ Fragments # {} =>
        "Fragmentation attack" \in Tags

\* The canonical names of the flags of one combination, joined by spaces.
RECURSIVE JoinedNames(_, _)
JoinedNames(i, flags) ==
    IF i > Len(TCP_FLAG_NAMES) THEN ""
    ELSE LET rest == JoinedNames(i + 1, flags)
         IN IF TCP_FLAG_NAMES[i][1] \notin flags THEN rest
            ELSE IF rest = "" THEN TCP_FLAG_NAMES[i][2]
            ELSE TCP_FLAG_NAMES[i][2] \o " " \o rest

TcpVectors == {i \in DOMAIN attack_vectors : attack_vectors[i].protocol = "TCP"}

Entries(i) ==
    Len(attack_vectors[i].tcp_flags.keys)
    + (IF attack_vectors[i].tcp_flags.others THEN 1 ELSE 0)

\* C7 as stated: a TCP vector with one entry in tcp_flags is tagged
\* "TCP <names> attack", <names> being the canonical names joined by spaces
\* or "no flag"; one with several entries is tagged "TCP flag attack".
C7_FlagTagNames ==
    fingerprint.status = "constructed" =>
        \A i \in TcpVectors :
            LET names == JoinedNames(1, attack_vectors[i].tcp_flags.keys[1])
            IN /\ Entries(i) = 1 =>
                     ("TCP " \o (IF names = "" THEN "no flag" ELSE names)
                        \o " attack") \in Tags
               /\ Entries(i) > 1 => "TCP flag attack" \in Tags

\* C7, amended: a TCP vector with one entry in tcp_flags is tagged
\* "TCP <names> flag attack", <names> being the canonical names of the flags
\* set joined by spaces, or "TCP no flag attack" when none is set; one with
\* several entries is tagged "TCP flag attack".
C7_FlagTagNamesFlag ==
    fingerprint.status = "constructed" =>
        \A i \in TcpVectors :
            LET names == JoinedNames(1, attack_vectors[i].tcp_flags.keys[1])
            IN /\ Entries(i) = 1 /\ names # "" =>
                     ("TCP " \o names \o " flag attack") \in Tags
               /\ Entries(i) = 1 /\ names = "" => "TCP no flag attack" \in Tags
               /\ Entries(i) > 1 => "TCP flag attack" \in Tags

\* A single TCP vector whose one flag combination sets no flag.
C7_Witness ==
    /\ fingerprint.status = "constructed"
    /\ Len(attack_vectors) = 1
    /\ attack_vectors[1].protocol = "TCP"
    /\ attack_vectors[1].tcp_flags.keys = <<{}>>
    /\ "TCP no flag attack" \in Tags

\* C8 as stated: constructing a Fingerprint from constructed AttackVectors
\* never raises, and leaves the tags set.
C8_ConstructionNeverRaises ==
    fingerprint.status # "raised"

\* --------------------------------------------------------- ordering

\* UDP vectors with source port 0, fragments or not, of 1..MaxBytes bytes a
\* row.
InputsOrder ==
    ConstructorInputs(
        DataFrames({Row(0, TicksPerSecond, b, 1, "a") : b \in 1..MaxBytes}),
        {0}, {"udp"}, {NoOutliers, Outliers(<<0>>, FALSE)}, {NoOutliers})

NextOrder == \E in \in InputsOrder : NewAttackVector(in)

SpecOrder == Init /\ [][NextOrder]_vars

Vectors == Range(attack_vectors)

Unfragmented == {v \in Vectors : v.service # "Fragmented IP packets"}

\* C9 as stated: on the vectors that are not fragments, < and the derived >
\* form a consistent total order by byte volume: of two vectors with
\* different volumes exactly one is less than the other, a > b exactly when
\* b < a, never a < b and a > b, and < is transitive; a fragment vector is
\* less than no vector.
C9_ConsistentTotalOrder ==
    /\ \A a, b \in Unfragmented :
           /\ a.bytes # b.bytes => (Lt(a, b) <=> ~Lt(b, a))
           /\ Gt(a, b) <=> Lt(b, a)
           /\ ~(Lt(a, b) /\ Gt(a, b))
    /\ \A a, b, c \in Unfragmented : Lt(a, b) /\ Lt(b, c) => Lt(a, c)
    /\ \A a \in Vectors \ Unfragmented : \A b \in Vectors : ~Lt(a, b)

\* --------------------------------------------------------- duration

\* Start and end times: 0, a second and a tick, a day and a tick.
Instants ==
    {0, TicksPerSecond + 1, TicksPerSecond * SecondsPerDay + 1}

InputsDuration ==
    ConstructorInputs(
        DataFrames({Row(span[1], span[2], 1, 1, "a") :
                       span \in {x \in Instants \X Instants : x[1] <= x[2]}}),
        {-1}, {"udp"}, {NoOutliers}, {NoOutliers})

NextDuration == \E in \in InputsDuration : NewAttackVector(in)

SpecDuration == Init /\ [][NextDuration]_vars

\* The ticks between the earliest start and the latest end of the rows.
Span(v) ==
    Max({r.time_end : r \in v.data}) - Min({r.time_start : r \in v.data})

\* C10 as stated: the duration of a vector is >= 0 and is its span in whole
\* seconds, that is, within half a second of the span, whatever the span.
C10_DurationIsRoundedSpan ==
    \A v \in Vectors :
        /\ v.duration >= 0
        /\ 2 * (v.duration * TicksPerSecond - Span(v)) <= TicksPerSecond
        /\ 2 * (Span(v) - v.duration * TicksPerSecond) <= TicksPerSecond

\* ------------------------------------------------- frame of the fingerprint

\* C12: once the Fingerprint is constructed, no step of as_dict,
\* write_to_file, upload_to_ddosdb or upload_to_misp, whatever its outcome,
\* changes the target, the summary, the vector list, the tags or the
\* checksum; storing the shareable flag in the payload leaves the summary
\* as it was.
C12_OperationsKeepFingerprint ==
    [][fingerprint.status = "constructed" =>
          /\ fingerprint'.status = "constructed"
          /\ fingerprint'.target = fingerprint.target
          /\ fingerprint'.summary = fingerprint.summary
          /\ fingerprint'.tags = fingerprint.tags
          /\ fingerprint'.checksum = fingerprint.checksum
          /\ attack_vectors' = attack_vectors
          /\ rendered'.fp_dict.shareable # <<>> =>
                 fingerprint'.summary = fingerprint.summary]_vars

\* A shareable payload was rejected with 403 after upload_to_misp found a
\* duplicate, and the fingerprint still has the checksum of its vectors and
\* its summary.
C12_Witness ==
    /\ fingerprint.status = "constructed"
    /\ rendered.op = "upload_to_ddosdb"
    /\ rendered.fp_dict.shareable = <<TRUE>>
    /\ rendered.fp_dict.summary = fingerprint.summary
    /\ ddosdb.pc = "returned"
    /\ ddosdb.ret = 403
    /\ \E p \in misp.seen : p.outcome = "events"
    /\ fingerprint.summary \in Summaries
    /\ fingerprint.checksum = Checksum(attack_vectors, fingerprint.summary)

\* --------------------------------------------------------- throughput

\* Rows of one source in the first or the second second, with or without a
\* time span, with or without bytes, with or without packets.
RowsThroughput ==
    {Row(span[1], span[2], b, p, "a") :
        span \in {<<0, 0>>, <<0, TicksPerSecond>>,
                  <<TicksPerSecond, TicksPerSecond>>},
        b \in {0, MaxBytes}, p \in {0, 1}}

InputsThroughput ==
    ConstructorInputs(DataFrames(RowsThroughput), {53}, {"udp"},
                      {NoOutliers}, {NoOutliers})

NextThroughput ==
    \/ \E in \in InputsThroughput : NewAttackVector(in)
    \/ \E i \in 1..MaxVectors, summarized \in BOOLEAN :
           AttackVectorAsDict(i, summarized)

SpecThroughput == Init /\ [][NextThroughput]_vars

\* C11: a vector whose records hold no packet has all six throughput
\* metrics 0, at construction and in the mapping of as_dict, which does not
\* fault; avg_bps and avg_pps are 0 whenever the duration is 0.
C11_ZeroPacketsZeroThroughput ==
    /\ \A i \in DOMAIN attack_vectors :
           LET v == attack_vectors[i]
           IN /\ v.packets = 0 =>
                     /\ v.avg_pps = 0 /\ v.avg_bps = 0 /\ v.avg_Bpp = 0
                     /\ v.peak_pps = 0 /\ v.peak_bps = 0
                     /\ v.peak_Bpp = Finite(0)
              /\ v.duration = 0 => v.avg_bps = 0 /\ v.avg_pps = 0
    /\ /\ rendered.op = "AttackVector.as_dict"
       /\ attack_vectors[rendered.index].packets = 0
       => /\ ~rendered.vector.raised
          /\ rendered.vector.values = NoValues

\* ------------------------------------------------ packet-level fields

\* Packet-level vectors of DNS, HTTP, NTP and of no service, over UDP, TCP
\* and ICMP, whose ethernet type has no dominant value, or IPv4, or ARP; and
\* the same vectors at flow level.
InputsPacket ==
    PacketInputs({OneSource}, {53, 80, 123, -1}, {"udp", "tcp", "icmp"},
                 {NoOutliers}, {NoOutliers}, {"PCAP"},
                 {NoOutliers, Outliers(<<"IPv4">>, FALSE),
                  Outliers(<<"ARP">>, FALSE)})
    \cup ConstructorInputs({OneSource}, {53, 80, 123, -1},
                           {"udp", "tcp", "icmp"}, {NoOutliers}, {NoOutliers})

NextPacket ==
    \/ \E in \in InputsPacket : NewAttackVector(in)
    \/ \E i \in 1..MaxVectors, summarized \in BOOLEAN :
           AttackVectorAsDict(i, summarized)

SpecPacket == Init /\ [][NextPacket]_vars

\* The keys of the protocol-specific groups, and of the IP fields.
FieldGroups ==
    {{"dns_query_name", "dns_query_type"},
     {"http_uri", "http_method", "http_user_agent"},
     {"ntp_requestcode"},
     {"icmp_type"}}
IPKeys == {"fragmentation_offset", "ttl"}
EnrichmentKeys ==
    {"ethernet_type", "frame_len"} \cup IPKeys \cup UNION FieldGroups

\* C13: as_dict of a packet-level vector returns a mapping without
\* faulting, also when the ethernet type is stored as 'random';
\* fragmentation_offset and ttl are in it exactly when they were computed
\* (the ethernet type is a mapping with IPv4 or IPv6), and at most one of
\* the DNS, HTTP, NTP and ICMP groups, the one computed; the mapping of a
\* flow-level vector has none of these keys.
C13_PacketFieldsAsComputed ==
    rendered.op = "AttackVector.as_dict" =>
        LET v == attack_vectors[rendered.index]
            d == rendered.vector
        IN /\ v.filetype = "PCAP" =>
                  /\ ~d.raised
                  /\ IPKeys \subseteq d.keys <=>
                         {"frag_offset", "ttl"} \subseteq v.attributes
                  /\ IPKeys \cap d.keys # {} => IsIP(v.eth_type)
                  /\ \A g \in FieldGroups :
                         /\ g \cap d.keys # {} <=> g \subseteq v.attributes
                         /\ g \cap d.keys # {} => g \subseteq d.keys
                  /\ Cardinality({g \in FieldGroups : g \cap d.keys # {}}) <= 1
           /\ v.filetype = "FLOW" =>
                  ~d.raised /\ d.keys \cap EnrichmentKeys = {}

\* ------------------------------------------------------------ checksum

\* The share of the attack a caller may give a vector (line 123 sets 0).
Fractions == {0, 1}

\* The caller sets fraction_of_attack of the vector at position i, before
\* the Fingerprint is constructed.
SetFractionOfAttack(i, f) ==
    /\ i \in DOMAIN attack_vectors
    /\ fingerprint.status = "none"
    /\ attack_vectors[i].fraction_of_attack # f
    /\ attack_vectors' = [attack_vectors EXCEPT ![i].fraction_of_attack = f]
    /\ UNCHANGED <<fingerprint, ddosdb, misp, rendered>>

\* Vectors over UDP and TCP, from port 53, from a port of no known service
\* or from no fixed port, of one source in one second or of two sources,
\* more bytes and a longer span.
InputsChecksum ==
    ConstructorInputs({OneSource,
                       {Row(0, TicksPerSecond, 1, 1, "a"),
                        Row(TicksPerSecond, 3 * TicksPerSecond, MaxBytes, 1,
                            "b")}},
                      {53, 7777, -1}, {"udp", "tcp"}, {NoOutliers},
                      {NoOutliers})

\* A single address and a network; two summaries with the same keys.
TargetsChecksum ==
    {<<Network("192.0.2.1", 32, 4)>>, <<Network("198.51.100.0", 24, 4)>>}
SummariesChecksum ==
    {<<<<"total_packets", n>>, <<"duration_seconds", 1>>>> : n \in {1, 2}}

NextChecksum ==
    \/ \E in \in InputsChecksum : NewAttackVector(in)
    \/ \E i \in 1..MaxVectors, f \in Fractions : SetFractionOfAttack(i, f)
    \/ \E target \in TargetsChecksum, summary \in SummariesChecksum,
          show_target \in BOOLEAN :
           NewFingerprint(target, summary, show_target)

SpecChecksum == Init /\ [][NextChecksum]_vars

\* The vectors that agree with v on fraction_of_attack, protocol and service.
Alike(v) ==
    {w \in {[AttackVector(in, v.id) EXCEPT !.fraction_of_attack = f] :
               in \in InputsChecksum, f \in Fractions} :
        /\ w.fraction_of_attack = v.fraction_of_attack
        /\ w.protocol = v.protocol
        /\ w.service = v.service}

\* The lists as long as vs that agree with vs position by position.
RECURSIVE AlikeLists(_)
AlikeLists(vs) ==
    IF vs = <<>> THEN {<<>>}
    ELSE {<<w>> \o rest : w \in Alike(Head(vs)), rest \in AlikeLists(Tail(vs))}

\* C14: the checksum depends only on the summary and, for each vector in
\* list order, on its fraction_of_attack, protocol and service: a
\* Fingerprint of the same summary and of vectors that agree on these three
\* position by position has the same checksum, whatever their other fields,
\* and whatever its target.
C14_ChecksumOfThreeAttributes ==
    fingerprint.status = "constructed" =>
        \A ws \in AlikeLists(attack_vectors) :
            \A target \in TargetsChecksum, show_target \in BOOLEAN :
                LET other == Fingerprint(target, fingerprint.summary, ws,
                                         show_target)
                IN other.status = "constructed" =>
                       other.checksum = fingerprint.checksum

\* Two vectors, the first with a share set by the caller; a Fingerprint of
\* another target and of vectors with other byte totals, sources, spans and
\* source ports has the same checksum.
C14_Witness ==
    /\ fingerprint.status = "constructed"
    /\ Len(attack_vectors) = 2
    /\ attack_vectors[1].fraction_of_attack = 1
    /\ \E ws \in AlikeLists(attack_vectors), target \in TargetsChecksum :
           /\ ws[1].bytes # attack_vectors[1].bytes
           /\ ws[1].source_ips # attack_vectors[1].source_ips
           /\ ws[1].duration # attack_vectors[1].duration
           /\ ws[2].source_port # attack_vectors[2].source_port
           /\ NormalizeTarget(target) # fingerprint.target
           /\ Fingerprint(target, fingerprint.summary, ws, FALSE).checksum
                  = fingerprint.checksum

====
